---- MODULE Spec2Model ----
(***************************************************************************)
(* Model of rslib/src/findreplace.rs: FindReplaceContext (a compiled       *)
(* pattern, a replacement and an optional field name) and                  *)
(* Collection::find_and_replace, which substitutes text in the fields of   *)
(* a batch of notes, notetype group by notetype group, inside one          *)
(* transaction, and returns the number of notes it updated.                *)
(*                                                                         *)
(* Option<T> is modelled as a sequence of length 0 (None) or 1 (Some).     *)
(* A text is a sequence of characters; a Regex is a literal, non-empty     *)
(* sequence of characters, and "(" is the pattern that does not compile.   *)
(***************************************************************************)
EXTENDS Integers, Sequences, FiniteSets, TLC

VARIABLES pc, args, ctx, store, before, savepoint, usn, nids_by_notetype,
          idx, group_end, genctx, field_ord, total_changed, result, log

vars == <<pc, args, ctx, store, before, savepoint, usn, nids_by_notetype,
          idx, group_end, genctx, field_ord, total_changed, result, log>>

(***************************************************************************)
(* Bounds and input sets                                                   *)
(***************************************************************************)
MaxTextLen == 2

Alphabet == {"a", "b"}

Texts == UNION {[1..n -> Alphabet] : n \in 0..MaxTextLen}

\* Search patterns handed to FindReplaceContext::new; <<"(">> does not compile.
Patterns == {<<"a">>, <<"a", "a">>, <<"(">>}

\* Replacements: delete the match, reproduce a one-character match, change it.
Replacements == {<<>>, <<"a">>, <<"b">>}

None == <<>>

Some(x) == <<x>>

FieldNameArgs == {None, Some("Front"), Some("Back"), Some("Text"), Some("Nope")}

UsnValues == {-1}

(***************************************************************************)
(* The collection: two notetypes and three notes, as in test::findreplace  *)
(* (Basic with Front and Back, Cloze with Text).  Note 3 is a Basic note   *)
(* that holds one field only, fewer than its notetype names.               *)
(***************************************************************************)
NoteIDs == {1, 2, 3}

NoteTypeIDs == {"Basic", "Cloze"}

NotetypeFields(ntid) == IF ntid = "Basic" THEN <<"Front", "Back">> ELSE <<"Text">>

NoteMid(nid) == IF nid = 2 THEN "Cloze" ELSE "Basic"

\* texts of the Back field of note 1 and of the Text field of note 2
BackTexts == {<<>>, <<"a">>, <<"b", "a">>, <<"a", "a">>}

InitialStores ==
    {[nid \in NoteIDs |-> CASE nid = 1 -> <<t, u>>
                            [] nid = 2 -> <<u>>
                            [] OTHER   -> <<t>>] : t \in Texts, u \in BackTexts}

(***************************************************************************)
(* Regex                                                                   *)
(***************************************************************************)
\* Regex::new(search_re).is_ok()
RegexCompiles(search_re) == \A i \in 1..Len(search_re) : search_re[i] # "("

MatchAt(search, text, i) ==
    /\ i + Len(search) - 1 <= Len(text)
    /\ \A k \in 1..Len(search) : text[i + k - 1] = search[k]

IsMatch(search, text) == \E i \in 1..Len(text) : MatchAt(search, text, i)

RECURSIVE ReplaceFrom(_, _, _, _)
\* every non-overlapping match, leftmost first, from position i on
ReplaceFrom(search, text, rep, i) ==
    IF i > Len(text) THEN <<>>
    ELSE IF MatchAt(search, text, i)
         THEN rep \o ReplaceFrom(search, text, rep, i + Len(search))
         ELSE <<text[i]>> \o ReplaceFrom(search, text, rep, i + 1)

Borrowed(text) == [owned |-> FALSE, text |-> text]

Owned(text) == [owned |-> TRUE, text |-> text]

\* a plausible slip: an owned copy is handed back also when nothing matched
replace_text_always_owned(c, text) ==
    Owned(ReplaceFrom(c.search, text, c.replacement, 1))

\* FindReplaceContext::replace_text: Regex::replace_all gives Cow::Borrowed
\* when the pattern matches nowhere and Cow::Owned as soon as it matches.
replace_text(c, text) ==
    IF IsMatch(c.search, text)
    THEN Owned(ReplaceFrom(c.search, text, c.replacement, 1))
    ELSE Borrowed(text)

(***************************************************************************)
(* Collaborators of the storage layer                                      *)
(***************************************************************************)
\* NoteType::get_field_ord: the 0-based position of the field called name
get_field_ord(ntid, name) ==
    LET fields == NotetypeFields(ntid)
        hits == {i \in 1..Len(fields) : fields[i] = name}
    IN  IF hits = {} THEN None ELSE Some((CHOOSE i \in hits : TRUE) - 1)

\* every order in which storage.note_ids_by_notetype may deliver the
\* (notetype id, note id) pairs of the notes in nids, each note once
PairOrders(nids) ==
    {[i \in 1..Cardinality(nids) |-> <<NoteMid(o[i]), o[i]>>] :
        o \in {f \in [1..Cardinality(nids) -> nids] :
                 \A i, j \in 1..Cardinality(nids) : f[i] = f[j] => i = j}}

\* the pairs come notetype by notetype: no notetype id resumes after a gap
Grouped(pairs) ==
    \A i, j, k \in 1..Len(pairs) :
        (i < j /\ j < k /\ pairs[i][1] = pairs[k][1]) => pairs[j][1] = pairs[i][1]

(***************************************************************************)
(* find_and_replace_inner, piece by piece                                  *)
(***************************************************************************)
\* a slip: every pair is a group of its own
GroupEnd_single(pairs, i) == i

\* a slip: the run is not cut where the key changes
GroupEnd_nokey(pairs, i) == Len(pairs)

\* itertools group_by(|tup| tup.0): the group that starts at pairs[i] is
\* the longest run of consecutive pairs with the notetype id of pairs[i]
GroupEnd(pairs, i) ==
    CHOOSE j \in i..Len(pairs) :
        /\ \A k \in i..j : pairs[k][1] = pairs[i][1]
        /\ (j < Len(pairs) => pairs[j + 1][1] # pairs[i][1])

\* a slip: the field name is resolved against the notetype but not used
ResolveFieldOrd_ignored(field_name, ntid) == None

\* ctx.field_name.as_ref().and_then(|n| nt.get_field_ord(n))
ResolveFieldOrd(field_name, ntid) ==
    IF field_name = None THEN None ELSE get_field_ord(ntid, field_name[1])

\* a slip: a note too short for the ordinal is padded up to it
ReplaceFields_padded(c, ford, fields) ==
    IF ford = None
    THEN [fields  |-> [i \in 1..Len(fields) |-> replace_text(c, fields[i]).text],
          changed |-> \E i \in 1..Len(fields) : replace_text(c, fields[i]).owned]
    ELSE IF ford[1] + 1 <= Len(fields)
         THEN [fields  |-> [fields EXCEPT
                              ![ford[1] + 1] = replace_text(c, fields[ford[1] + 1]).text],
               changed |-> replace_text(c, fields[ford[1] + 1]).owned]
         ELSE [fields  |-> [i \in 1..(ford[1] + 1) |->
                              IF i <= Len(fields) THEN fields[i] ELSE <<>>],
               changed |-> TRUE]

\* the match on field_ord: None substitutes in every field, Some(ord) in
\* fields[ord] alone if the note has it; changed is set by a Cow::Owned
ReplaceFields(c, ford, fields) ==
    IF ford = None
    THEN [fields  |-> [i \in 1..Len(fields) |-> replace_text(c, fields[i]).text],
          changed |-> \E i \in 1..Len(fields) : replace_text(c, fields[i]).owned]
    ELSE IF ford[1] + 1 <= Len(fields)
         THEN [fields  |-> [fields EXCEPT
                              ![ford[1] + 1] = replace_text(c, fields[ford[1] + 1]).text],
               changed |-> replace_text(c, fields[ford[1] + 1]).owned]
         ELSE [fields |-> fields, changed |-> FALSE]

(***************************************************************************)
(* State                                                                   *)
(***************************************************************************)
NoCtx == [nids |-> {}, search |-> <<>>, replacement |-> <<>>, field_name |-> None]

NoResult == [kind |-> "none", count |-> 0, err |-> ""]

Ok(n) == [kind |-> "ok", count |-> n, err |-> ""]

Err(e) == [kind |-> "err", count |-> 0, err |-> e]

Panic(e) == [kind |-> "panic", count |-> 0, err |-> e]

\* one call of a collaborator, in the order the calls were made
Ev(op, nid, nt, u, out) == [op |-> op, nid |-> nid, nt |-> nt, usn |-> u, out |-> out]

Init ==
    /\ pc = "new"
    /\ args \in [nids : SUBSET NoteIDs, search_re : Patterns,
                 repl : Replacements, field_name : FieldNameArgs]
    /\ ctx = NoCtx
    /\ store \in InitialStores
    /\ before = store
    /\ savepoint = store
    /\ usn = None
    /\ nids_by_notetype = <<>>
    /\ idx = 1
    /\ group_end = 0
    /\ genctx = None
    /\ field_ord = None
    /\ total_changed = 0
    /\ result = NoResult
    /\ log = <<>>

(***************************************************************************)
(* FindReplaceContext::new                                                 *)
(***************************************************************************)
\* a slip: the context is built without compiling the pattern first
New_unchecked ==
    /\ pc = "new"
    /\ ctx' = [nids |-> args.nids, search |-> args.search_re,
               replacement |-> args.repl, field_name |-> args.field_name]
    /\ pc' = "ready"
    /\ UNCHANGED <<args, store, before, savepoint, usn, nids_by_notetype, idx,
                   group_end, genctx, field_ord, total_changed, result, log>>

\* Regex::new(search_re).map_err(|_| invalid_input("invalid regex"))?
New ==
    /\ pc = "new"
    /\ IF RegexCompiles(args.search_re)
       THEN /\ ctx' = [nids |-> args.nids, search |-> args.search_re,
                       replacement |-> args.repl, field_name |-> args.field_name]
            /\ pc' = "ready"
            /\ UNCHANGED result
       ELSE /\ result' = Err("invalid regex")
            /\ pc' = "done"
            /\ UNCHANGED ctx
    /\ UNCHANGED <<args, store, before, savepoint, usn, nids_by_notetype, idx,
                   group_end, genctx, field_ord, total_changed, log>>

(***************************************************************************)
(* Collection::find_and_replace: transact(None, |col| ... col.usn()? ...)  *)
(***************************************************************************)
find_and_replace ==
    /\ pc = "ready"
    /\ savepoint' = store
    /\ \/ \E u \in UsnValues :
             /\ usn' = Some(u)
             /\ log' = log \o <<Ev("begin", 0, "", None, "ok"), Ev("usn", 0, "", Some(u), "ok")>>
             /\ pc' = "inner"
             /\ UNCHANGED result
       \/ /\ log' = log \o <<Ev("begin", 0, "", None, "ok"), Ev("usn", 0, "", None, "err")>>
          /\ result' = Err("usn")
          /\ pc' = "rollback"
          /\ UNCHANGED usn
    /\ UNCHANGED <<args, ctx, store, before, nids_by_notetype, idx, group_end,
                   genctx, field_ord, total_changed>>

\* let nids_by_notetype = self.storage.note_ids_by_notetype(&ctx.nids)?;
ResolveNotetypes ==
    /\ pc = "inner"
    /\ \/ \E pairs \in PairOrders(ctx.nids) :
             /\ nids_by_notetype' = pairs
             /\ log' = Append(log, Ev("note_ids_by_notetype", 0, "", None, "ok"))
             /\ pc' = "group"
             /\ UNCHANGED result
       \/ /\ log' = Append(log, Ev("note_ids_by_notetype", 0, "", None, "err"))
          /\ result' = Err("note_ids_by_notetype")
          /\ pc' = "rollback"
          /\ UNCHANGED nids_by_notetype
    /\ total_changed' = 0
    /\ UNCHANGED <<args, ctx, store, before, savepoint, usn, idx, group_end,
                   genctx, field_ord>>

\* the head of the outer loop: the next group's notetype is loaded, its
\* CardGenContext built and the field ordinal resolved; Ok(total_changed)
\* once no pair is left
NextGroup ==
    /\ pc = "group"
    /\ IF idx > Len(nids_by_notetype)
       THEN /\ result' = Ok(total_changed)
            /\ pc' = "commit"
            /\ UNCHANGED <<genctx, field_ord, group_end, log>>
       ELSE LET ntid == nids_by_notetype[idx][1] IN
            \/ /\ log' = log \o <<Ev("get_notetype", 0, ntid, None, "some"),
                                  Ev("CardGenContext::new", 0, ntid, usn, "ok")>>
                             \o (IF ctx.field_name = None THEN <<>>
                                 ELSE <<Ev("get_field_ord", 0, ntid, None, "ok")>>)
               /\ genctx' = Some([nt |-> ntid, usn |-> usn])
               /\ field_ord' = ResolveFieldOrd(ctx.field_name, ntid)
               /\ group_end' = GroupEnd(nids_by_notetype, idx)
               /\ pc' = "note"
               /\ UNCHANGED result
            \/ /\ log' = Append(log, Ev("get_notetype", 0, ntid, None, "none"))
               /\ result' = Err("missing note type")
               /\ pc' = "rollback"
               /\ UNCHANGED <<genctx, field_ord, group_end>>
            \/ /\ log' = Append(log, Ev("get_notetype", 0, ntid, None, "err"))
               /\ result' = Err("get_notetype")
               /\ pc' = "rollback"
               /\ UNCHANGED <<genctx, field_ord, group_end>>
    /\ UNCHANGED <<args, ctx, store, before, savepoint, usn, nids_by_notetype,
                   idx, total_changed>>

\* the body of the inner loop for the next note of the group: get_note,
\* the substitution, and update_note_inner if changed
ProcessNote ==
    /\ pc = "note"
    /\ IF idx > group_end
       THEN /\ pc' = "group"
            /\ UNCHANGED <<store, idx, total_changed, result, log>>
       ELSE LET nid == nids_by_notetype[idx][2]
                sub == ReplaceFields(ctx, field_ord, store[nid])
                got == Ev("get_note", nid, "", None, "some")
            IN
            \/ /\ log' = Append(log, Ev("get_note", nid, "", None, "err"))
               /\ result' = Err("get_note")
               /\ pc' = "rollback"
               /\ UNCHANGED <<store, idx, total_changed>>
            \/ \* Ok(None).unwrap()
               /\ log' = Append(log, Ev("get_note", nid, "", None, "none"))
               /\ result' = Panic("unwrap on None")
               /\ pc' = "panic"
               /\ UNCHANGED <<store, idx, total_changed>>
            \/ /\ ~sub.changed
               /\ log' = Append(log, got)
               /\ idx' = idx + 1
               /\ pc' = "note"
               /\ UNCHANGED <<store, total_changed, result>>
            \/ /\ sub.changed
               /\ log' = log \o <<got, Ev("update_note_inner", nid, genctx[1].nt,
                                          genctx[1].usn, "ok")>>
               /\ store' = [store EXCEPT ![nid] = sub.fields]
               /\ total_changed' = total_changed + 1
               /\ idx' = idx + 1
               /\ pc' = "note"
               /\ UNCHANGED result
            \/ /\ sub.changed
               /\ log' = log \o <<got, Ev("update_note_inner", nid, genctx[1].nt,
                                          genctx[1].usn, "err")>>
               /\ result' = Err("update_note_inner")
               /\ pc' = "rollback"
               /\ UNCHANGED <<store, idx, total_changed>>
    /\ UNCHANGED <<args, ctx, before, savepoint, usn, nids_by_notetype,
                   group_end, genctx, field_ord>>

(***************************************************************************)
(* Collection::transact: how the transaction ends                          *)
(***************************************************************************)
\* the closure returned Ok: the writes of the run are committed
Commit ==
    /\ pc = "commit"
    /\ log' = Append(log, Ev("commit", 0, "", None, "ok"))
    /\ pc' = "done"
    /\ UNCHANGED <<args, ctx, store, before, savepoint, usn, nids_by_notetype,
                   idx, group_end, genctx, field_ord, total_changed, result>>

\* the closure returned Err: the writes of the run are undone
Rollback ==
    /\ pc = "rollback"
    /\ store' = savepoint
    /\ log' = Append(log, Ev("rollback", 0, "", None, "ok"))
    /\ pc' = "done"
    /\ UNCHANGED <<args, ctx, before, savepoint, usn, nids_by_notetype, idx,
                   group_end, genctx, field_ord, total_changed, result>>

\* the closure panicked: the scope is left early, the writes are undone and
\* the panic goes on to the caller, who gets no Result
Unwind ==
    /\ pc = "panic"
    /\ store' = savepoint
    /\ log' = Append(log, Ev("rollback", 0, "", None, "ok"))
    /\ pc' = "done"
    /\ UNCHANGED <<args, ctx, before, savepoint, usn, nids_by_notetype, idx,
                   group_end, genctx, field_ord, total_changed, result>>

Next ==
    \/ New
    \/ find_and_replace
    \/ ResolveNotetypes
    \/ NextGroup
    \/ ProcessNote
    \/ Commit
    \/ Rollback
    \/ Unwind

Spec == Init /\ [][Next]_vars

(***************************************************************************)
(* Vocabulary of the properties                                            *)
(***************************************************************************)
Done == pc = "done"

Succeeded == Done /\ result.kind = "ok"

PatternCompiles == args.search_re # <<"(">>

EventsOf(op) == {i \in 1..Len(log) : log[i].op = op}

\* a collaborator failed or found nothing
Failures == {i \in 1..Len(log) : log[i].out \in {"err", "none"}}

UpdatesOf(nid) == {i \in EventsOf("update_note_inner") : log[i].nid = nid}

\* the substitution the caller asked for, on one text
Substituted(text) == ReplaceFrom(args.search_re, text, args.repl, 1)

\* the positions (1-based) at which the notetype of nid has the field asked for
NamedPositions(nid) ==
    IF args.field_name = None THEN {}
    ELSE {i \in 1..Len(NotetypeFields(NoteMid(nid))) :
            NotetypeFields(NoteMid(nid))[i] = args.field_name[1]}

\* the positions of nid's fields that the run is to substitute in
TargetedPositions(nid) ==
    IF NamedPositions(nid) = {} THEN 1..Len(before[nid])
    ELSE NamedPositions(nid) \cap 1..Len(before[nid])

NothingMatches ==
    \A nid \in args.nids : \A i \in TargetedPositions(nid) :
        ~IsMatch(args.search_re, before[nid][i])

(***************************************************************************)
(* Properties                                                              *)
(***************************************************************************)

\* C1: atomicity.  Whatever fails during a run (a notetype or a note that
\* cannot be loaded, a failing update_note_inner after earlier updates),
\* the caller gets an error value and every note has the fields it had
\* before the run.
C1_FailureReturnsErrorAndRestores ==
    (Done /\ Failures # {}) => (result.kind = "err" /\ store = before)

\* C2: field targeting.  After a successful run every note of the batch
\* whose notetype has the named field is substituted at that field alone,
\* and every other note of the batch (its notetype lacks the name, or no
\* name was given) is substituted in every field; a run in which no
\* collaborator failed is successful, so a missing field name is no error.
C2_FieldTargetingWithFallback ==
    /\ (Done /\ PatternCompiles /\ Failures = {}) => result.kind = "ok"
    /\ Succeeded =>
         \A nid \in args.nids :
            /\ Len(store[nid]) = Len(before[nid])
            /\ \A i \in 1..Len(before[nid]) :
                 store[nid][i] = IF i \in TargetedPositions(nid)
                                 THEN Substituted(before[nid][i])
                                 ELSE before[nid][i]

C2_Witness ==
    /\ Succeeded
    /\ args.field_name = Some("Front")
    /\ args.nids = NoteIDs
    /\ store[1][1] # before[1][1]
    /\ store[1][2] = before[1][2]
    /\ IsMatch(args.search_re, before[1][2])
    /\ store[2] # before[2]

\* C3: a note is handed to update_note_inner and counted only if one of
\* its fields differs, after the substitution, from what it was before.
C3_OnlyDifferingNotesWritten ==
    Succeeded =>
        /\ \A i \in EventsOf("update_note_inner") :
              store[log[i].nid] # before[log[i].nid]
        /\ result.count <= Cardinality({nid \in NoteIDs : store[nid] # before[nid]})

\* C4: a note id that cannot be loaded (get_note finds no note) makes
\* find_and_replace return an error value and leaves the store as it was.
C4_MissingNoteIsAnError ==
    (Done /\ \E i \in EventsOf("get_note") : log[i].out = "none")
        => (result.kind = "err" /\ store = before)

\* C5: a pattern that does not compile makes FindReplaceContext::new fail
\* with "invalid regex" and nothing of the store is touched: no
\* transaction, no usn, no notetype or note is read, no note is updated.
C5_InvalidPatternFailsFirst ==
    ~PatternCompiles =>
        /\ pc \in {"new", "done"}
        /\ log = <<>>
        /\ store = before
        /\ Done => result = Err("invalid regex")

C5_Witness == Done /\ ~PatternCompiles /\ result = Err("invalid regex") /\ args.nids # {}

\* C6 as stated: if the pattern matches in no targeted field of any note
\* of the batch, the run returns 0, update_note_inner is never called and
\* the store is unchanged.
C6_NoMatchReturnsZero ==
    (Done /\ PatternCompiles /\ NothingMatches) =>
        /\ result = Ok(0)
        /\ EventsOf("update_note_inner") = {}
        /\ store = before

\* C6 amended: if the pattern matches in no targeted field of any note of
\* the batch, update_note_inner is never called and the store is never
\* changed; the run returns 0 unless a collaborator call failed, and then
\* it does not return a count.
C6_NoMatchNoWrite ==
    (PatternCompiles /\ NothingMatches) =>
        /\ EventsOf("update_note_inner") = {}
        /\ store = before
        /\ Done => IF Failures = {} THEN result = Ok(0) ELSE result.kind # "ok"

C6_Witness ==
    /\ Succeeded
    /\ NothingMatches
    /\ args.nids = NoteIDs
    /\ \E nid \in NoteIDs : \E i \in 1..Len(before[nid]) :
          IsMatch(args.search_re, before[nid][i])
    /\ result = Ok(0)

\* C7: on a successful run the count returned is the number of
\* update_note_inner calls, which is the number of notes whose stored
\* fields differ from before the run, and no note is updated twice.
C7_CountIsNumberOfNotesThatDiffer ==
    Succeeded =>
        /\ result.count = Cardinality(EventsOf("update_note_inner"))
        /\ result.count = Cardinality({nid \in NoteIDs : store[nid] # before[nid]})
        /\ \A nid \in NoteIDs : Cardinality(UpdatesOf(nid)) <= 1

\* C8: at every moment of a run and after it every note has as many
\* fields as before and differs from before at targeted positions of
\* notes of the batch only; a note with fewer fields than the ordinal
\* resolved from its notetype is left as it was and is never updated.
C8_FieldStructurePreserved ==
    \A nid \in NoteIDs :
        /\ Len(store[nid]) = Len(before[nid])
        /\ \A i \in 1..Len(before[nid]) :
              store[nid][i] # before[nid][i]
                  => (nid \in args.nids /\ i \in TargetedPositions(nid))
        /\ (NamedPositions(nid) # {} /\ TargetedPositions(nid) = {})
              => (store[nid] = before[nid] /\ UpdatesOf(nid) = {})

C8_Witness ==
    /\ Succeeded
    /\ args.field_name = Some("Back")
    /\ args.nids = NoteIDs
    /\ IsMatch(args.search_re, before[3][1])
    /\ store[3] = before[3]
    /\ store[1] # before[1]
    /\ \E i \in EventsOf("get_note") : log[i].nid = 3

\* C9: when the pairs are delivered notetype by notetype, each notetype of
\* the batch is loaded once, its field ordinal resolved once and its
\* CardGenContext built once, before any note of the group is loaded;
\* every update is made with the context of the note's notetype and the
\* one usn obtained for the run; every note is in one group only.
C9_OncePerNotetype ==
    Grouped(nids_by_notetype) =>
        /\ Cardinality(EventsOf("usn")) <= 1
        /\ \A ntid \in NoteTypeIDs :
              LET loads  == {i \in EventsOf("get_notetype") : log[i].nt = ntid}
                  builds == {i \in EventsOf("CardGenContext::new") : log[i].nt = ntid}
                  ords   == {i \in EventsOf("get_field_ord") : log[i].nt = ntid}
                  inBatch == \E nid \in args.nids : NoteMid(nid) = ntid
              IN  /\ Cardinality(loads) <= 1
                  /\ Cardinality(builds) <= 1
                  /\ Cardinality(ords) <= 1
                  /\ Succeeded =>
                        /\ Cardinality(loads) = (IF inBatch THEN 1 ELSE 0)
                        /\ Cardinality(builds) = (IF inBatch THEN 1 ELSE 0)
                        /\ Cardinality(ords) =
                              (IF inBatch /\ args.field_name # None THEN 1 ELSE 0)
        /\ \A i \in EventsOf("get_note") :
              /\ \E j \in EventsOf("CardGenContext::new") :
                    j < i /\ log[j].nt = NoteMid(log[i].nid) /\ log[j - 1].op = "get_notetype"
              /\ \A j \in EventsOf("get_note") : log[j].nid = log[i].nid => j = i
        /\ \A i \in EventsOf("update_note_inner") :
              /\ log[i].nt = NoteMid(log[i].nid)
              /\ log[i].usn = usn
              /\ usn # None
        /\ Succeeded =>
              \A nid \in args.nids : \E i \in EventsOf("get_note") : log[i].nid = nid

C9_Witness ==
    /\ Succeeded
    /\ Grouped(nids_by_notetype)
    /\ args.nids = NoteIDs
    /\ args.field_name = Some("Front")
    /\ Cardinality(EventsOf("update_note_inner")) = 3

\* what one note of the batch becomes when it is processed on its own
\* against its own notetype
AloneCtx ==
    [nids |-> args.nids, search |-> args.search_re,
     replacement |-> args.repl, field_name |-> args.field_name]

Alone(nid) ==
    ReplaceFields(AloneCtx, ResolveFieldOrd(args.field_name, NoteMid(nid)), before[nid])

\* C10: a run that completes without error leaves the same field texts
\* and returns the same count in whatever order the pairs were delivered,
\* contiguous by notetype or not: both are what the notes of the batch
\* give when each is processed on its own.
C10_OrderInsensitive ==
    Succeeded =>
        /\ store = [nid \in NoteIDs |->
                      IF nid \in args.nids THEN Alone(nid).fields ELSE before[nid]]
        /\ result.count = Cardinality({nid \in args.nids : Alone(nid).changed})

C10_Witness ==
    /\ Succeeded
    /\ ~Grouped(nids_by_notetype)
    /\ args.field_name = Some("Front")
    /\ result.count = 3
    /\ store[1][2] = before[1][2]
    /\ IsMatch(args.search_re, before[1][2])

====
